---- MODULE Spec2Model ----
(***************************************************************************)
(* A model of alesr/ctxutil: typed string values (deviceID, traceID) kept  *)
(* in one heap-allocated contextValues struct that is reached through a    *)
(* context.Context chain under the private key contextKey{}, plus          *)
(* ExtendTimeout, which builds a fresh deadline-bound context on           *)
(* context.Background() and re-attaches the same struct pointer.           *)
(*                                                                         *)
(* Contexts are numbered nodes: 0 is context.Background(), node i > 0 is   *)
(* ctxs[i].  The heap of contextValues structs is `heap`; a pointer is a   *)
(* heap index and 0 is the nil pointer.  Slots above `nalloc` are not yet  *)
(* allocated and hold the zero value, so slot nalloc+1 is what the next    *)
(* &contextValues{} yields.                                                *)
(***************************************************************************)
EXTENDS Integers, Sequences, FiniteSets, TLC

\* ------------------------------------------------------------------ bounds
MaxCtx == 4          \* context nodes ever created
MaxHolders == 3      \* contextValues structs ever allocated
MaxHost == 1         \* nodes created directly with the host's context package
MaxDur == 2          \* largest timeout handed to ExtendTimeout / WithTimeout
MaxTime == 2         \* clock ticks
MaxTimedCtx == 3     \* context nodes in the runs that cancel and expire contexts

Str == {"", "a", "b"}
Durations == 0..MaxDur

\* ------------------------------------------------------------------- state
VARIABLES
    ctxs,      \* sequence of context nodes (the immutable parent chain)
    errs,      \* errs[i]: the error stored in cancelCtx/timerCtx node i
    heap,      \* heap[p]: the contextValues struct behind pointer p
    nalloc,    \* number of structs allocated so far
    now,       \* the host clock
    last,      \* history: the last handle-building call, its arguments and result
    thr        \* thr[t]: the call goroutine t is executing, step by step

vars == <<ctxs, errs, heap, nalloc, now, last, thr>>

Background == 0
Nil == 0

\* type contextKey struct{} : the private lookup key; "other" stands for any
\* application key (a string, an int, a foreign struct type).
contextKey == "contextKey"
OtherKey == "other"

\* type contextValues struct { deviceID string; traceID string }
contextValues == [deviceID |-> "", traceID |-> ""]

\* Interface values a context can store under a key.
Ptr(p) == [t |-> "ptr", p |-> p]               \* a *contextValues (p = 0: typed nil)
WrongType == [t |-> "string", p |-> 0]         \* e.g. "wrong-type-value"
NilIface == [t |-> "nil", p |-> 0]             \* untyped nil; also "key absent"
AppValue == [t |-> "app", p |-> 0]             \* a value under an application key

Nodes == 1..Len(ctxs)
Handles == {Background} \cup Nodes

\* A node is one handle handed to a caller.  `key`/`val` is the value layer
\* (key = "" when the node attaches no value); `cancel` tells whether the node
\* is (or, for ExtendTimeout's result, wraps) a cancelCtx or a timerCtx.
\* `via`, `src`, `dur` and `at` are history: which operation built the node
\* and, for ExtendTimeout, its source handle, its timeout and the time of the
\* call.
ValueNode(parent, key, val, via) ==
    [parent |-> parent, key |-> key, val |-> val, cancel |-> "none",
     deadline |-> 0, via |-> via, src |-> 0, dur |-> 0, at |-> 0]
CancelNode(parent, via) ==
    [parent |-> parent, key |-> "", val |-> NilIface, cancel |-> "cancel",
     deadline |-> 0, via |-> via, src |-> 0, dur |-> 0, at |-> 0]
TimerNode(parent, deadline, via) ==
    [parent |-> parent, key |-> "", val |-> NilIface, cancel |-> "timer",
     deadline |-> deadline, via |-> via, src |-> 0, dur |-> 0, at |-> 0]

\* ---------------------------------------------------- host context package
\* Variant of Value that looks at the handle's own value layer only.
ValueOwn(c, key) ==
    IF c = Background THEN NilIface
    ELSE IF ctxs[c].key = key THEN ctxs[c].val
    ELSE NilIface

\* ctx.Value(key): the nearest value layer for key up the parent chain.
RECURSIVE Value(_, _)
Value(c, key) ==
    IF c = Background THEN NilIface
    ELSE IF ctxs[c].key = key THEN ctxs[c].val
    ELSE Value(ctxs[c].parent, key)

\* ctx.Err(): the error of the nearest cancelCtx/timerCtx, nil on Background.
RECURSIVE Err(_)
Err(c) ==
    IF c = Background THEN "nil"
    ELSE IF ctxs[c].cancel # "none" THEN errs[c]
    ELSE Err(ctxs[c].parent)

\* ctx.Deadline(): <<deadline, ok>> of the nearest timerCtx.
RECURSIVE Deadline(_)
Deadline(c) ==
    IF c = Background THEN <<0, FALSE>>
    ELSE IF ctxs[c].cancel = "timer" THEN <<ctxs[c].deadline, TRUE>>
    ELSE Deadline(ctxs[c].parent)

\* a is c or an ancestor of c in the parent chain.
RECURSIVE IsAncestor(_, _)
IsAncestor(a, c) ==
    IF a = c THEN TRUE
    ELSE IF c = Background THEN FALSE
    ELSE IsAncestor(a, ctxs[c].parent)

\* The error a freshly created cancelCtx/timerCtx child of parent starts with:
\* propagateCancel copies an already-cancelled parent's error; WithDeadline
\* cancels at once with DeadlineExceeded when the deadline has already passed.
InitialErr(parent, expired) ==
    IF Err(parent) # "nil" THEN Err(parent)
    ELSE IF expired THEN "DeadlineExceeded"
    ELSE "nil"

\* errs after cancelling every node of `roots` with `why`: the first error
\* sticks, and the cancellation reaches every cancelCtx/timerCtx below.
Cancelled(roots, why) ==
    [i \in Nodes |->
        IF /\ ctxs[i].cancel # "none"
           /\ errs[i] = "nil"
           /\ \E r \in roots : IsAncestor(r, i)
        THEN why ELSE errs[i]]

\* ------------------------------------------------------------- internal.go
\* Variant of getValues whose fallback is one package-level zero struct
\* instead of a new one per call.
getValuesSharedZero(ctx) ==
    LET val == Value(ctx, contextKey)
        ok == val.t = "ptr"
    IN  IF ~ok THEN MaxHolders + 1 ELSE val.p

\* getValues: the *contextValues stored under contextKey{}, or a fresh
\* zero-valued struct when the type assertion fails.
getValues(ctx) ==
    LET val == Value(ctx, contextKey)
        ok == val.t = "ptr"
    IN  IF ~ok THEN nalloc + 1 ELSE val.p

\* Variant of getString without the nil check: a nil pointer is dereferenced.
getStringNoNilCheck(ctx, getter) ==
    LET vals == getValues(ctx)
    IN  IF vals = Nil THEN "PANIC" ELSE heap[vals][getter]

\* getString: the field the getter selects, "" for a nil pointer.
getString(ctx, getter) ==
    LET vals == getValues(ctx)
    IN  IF vals = Nil THEN "" ELSE heap[vals][getter]

\* Variant of withValues that attaches the struct to a new root context
\* instead of a child of ctx.
withValuesDetached(ctx, vals, via) == ValueNode(Background, contextKey, Ptr(vals), via)

\* withValues: context.WithValue(ctx, contextKey{}, vals).
withValues(ctx, vals, via) == ValueNode(ctx, contextKey, Ptr(vals), via)

\* Variant of setTarget that always starts from a new zero-valued struct.
setTargetFresh(ctx) == nalloc + 1

\* The pointer setString writes through: getValues' result, or a new struct
\* when that is nil.
setTarget(ctx) ==
    LET vals == getValues(ctx)
    IN  IF vals = Nil THEN nalloc + 1 ELSE vals

\* Variant of setString that is copy-on-write: the struct found is copied, the
\* copy is modified and attached, the original is left alone.
setStringCopy(ctx, setter, value) ==
    LET vals == setTarget(ctx)
        copy == nalloc + 1
    IN  /\ Len(ctxs) < MaxCtx
        /\ nalloc < MaxHolders
        /\ heap' = [heap EXCEPT ![copy] = [heap[vals] EXCEPT ![setter] = value]]
        /\ nalloc' = nalloc + 1
        /\ ctxs' = Append(ctxs, withValues(ctx, copy, "set"))
        /\ errs' = Append(errs, "nil")
        /\ UNCHANGED <<now, thr>>

\* Variant of setString that leaves the struct alone when the context it is
\* called with is already cancelled or past its deadline.
setStringIfLive(ctx, setter, value) ==
    LET vals == setTarget(ctx)
        fresh == vals = nalloc + 1
    IN  /\ Len(ctxs) < MaxCtx
        /\ fresh => nalloc < MaxHolders
        /\ heap' = IF Err(ctx) # "nil" THEN heap ELSE [heap EXCEPT ![vals][setter] = value]
        /\ nalloc' = IF fresh THEN nalloc + 1 ELSE nalloc
        /\ ctxs' = Append(ctxs, withValues(ctx, vals, "set"))
        /\ errs' = Append(errs, "nil")
        /\ UNCHANGED <<now, thr>>

\* setString: fetch (or allocate) the struct, assign the field the setter
\* selects in place, attach the struct to a new child context.
setString(ctx, setter, value) ==
    LET vals == setTarget(ctx)
        fresh == vals = nalloc + 1
    IN  /\ Len(ctxs) < MaxCtx
        /\ fresh => nalloc < MaxHolders
        /\ heap' = [heap EXCEPT ![vals][setter] = value]
        /\ nalloc' = IF fresh THEN nalloc + 1 ELSE nalloc
        /\ ctxs' = Append(ctxs, withValues(ctx, vals, "set"))
        /\ errs' = Append(errs, "nil")
        /\ UNCHANGED <<now, thr>>

\* ------------------------------------------------------------ public API
GetDeviceID(ctx) == getString(ctx, "deviceID")
GetTraceID(ctx) == getString(ctx, "traceID")

NoOp == [op |-> "none", ctx |-> 0, arg |-> "", ret |-> 0, dur |-> 0, at |-> 0,
         preDev |-> "", preTrace |-> ""]

\* The history record of a call op(ctx, ...) that returns node Len(ctxs) + 1;
\* preDev and preTrace are what the getters returned on ctx before the call.
Call(op, ctx, arg, dur) ==
    [op |-> op, ctx |-> ctx, arg |-> arg, ret |-> Len(ctxs) + 1, dur |-> dur,
     at |-> now, preDev |-> GetDeviceID(ctx), preTrace |-> GetTraceID(ctx)]

\* Variant of SetDeviceID whose setter closure assigns the other field.
SetDeviceIDWrongField(ctx, deviceID) ==
    /\ setString(ctx, "traceID", deviceID)
    /\ last' = Call("SetDeviceID", ctx, deviceID, 0)

SetDeviceID(ctx, deviceID) ==
    /\ setString(ctx, "deviceID", deviceID)
    /\ last' = Call("SetDeviceID", ctx, deviceID, 0)

\* Variant of SetTraceID that attaches a new struct holding only the trace ID:
\* withValues(ctx, &contextValues{traceID: traceID}).
SetTraceIDFresh(ctx, traceID) ==
    /\ Len(ctxs) < MaxCtx
    /\ nalloc < MaxHolders
    /\ heap' = [heap EXCEPT ![nalloc + 1] = [contextValues EXCEPT !.traceID = traceID]]
    /\ nalloc' = nalloc + 1
    /\ ctxs' = Append(ctxs, withValues(ctx, nalloc + 1, "set"))
    /\ errs' = Append(errs, "nil")
    /\ last' = Call("SetTraceID", ctx, traceID, 0)
    /\ UNCHANGED <<now, thr>>

SetTraceID(ctx, traceID) ==
    /\ setString(ctx, "traceID", traceID)
    /\ last' = Call("SetTraceID", ctx, traceID, 0)

\* The part of ExtendTimeout that is the same in every variant below: the node
\* appended, its initial error and whether a new struct was allocated.
ExtendWith(ctx, timeout, node, err, allocated) ==
    /\ Len(ctxs) < MaxCtx
    /\ allocated => nalloc < MaxHolders
    /\ ctxs' = Append(ctxs, [node EXCEPT !.src = ctx, !.dur = timeout, !.at = now])
    /\ errs' = Append(errs, err)
    /\ nalloc' = IF allocated THEN nalloc + 1 ELSE nalloc
    /\ last' = Call("ExtendTimeout", ctx, "", timeout)
    /\ UNCHANGED <<now, thr>>

\* Variant of ExtendTimeout that attaches a copy of the source's struct.
ExtendTimeoutClone(ctx, timeout) ==
    LET newCtx == TimerNode(Background, now + timeout, "extend")
        vals == getValues(ctx)
        copy == nalloc + 1
    IN  /\ heap' = [heap EXCEPT ![copy] = IF vals = Nil THEN contextValues ELSE heap[vals]]
        /\ ExtendWith(ctx, timeout,
                      [newCtx EXCEPT !.key = contextKey, !.val = Ptr(copy)],
                      InitialErr(Background, timeout <= 0), TRUE)

\* Variant of ExtendTimeout that returns the new context without the values.
ExtendTimeoutBare(ctx, timeout) ==
    /\ ExtendWith(ctx, timeout, TimerNode(Background, now + timeout, "extend"),
                  InitialErr(Background, timeout <= 0), FALSE)
    /\ UNCHANGED heap

\* Variant of ExtendTimeout that derives the new context from ctx instead of
\* context.Background(): context.WithTimeout(ctx, timeout).
ExtendTimeoutOnParent(ctx, timeout) ==
    LET cur == Deadline(ctx)
        newCtx == IF cur[2] /\ cur[1] < now + timeout
                  THEN CancelNode(ctx, "extend")
                  ELSE TimerNode(ctx, now + timeout, "extend")
        vals == getValues(ctx)
        attach == vals # Nil
    IN  /\ ExtendWith(ctx, timeout,
                      IF attach
                      THEN [newCtx EXCEPT !.key = contextKey, !.val = Ptr(vals)]
                      ELSE newCtx,
                      InitialErr(ctx, timeout <= 0), attach /\ vals = nalloc + 1)
        /\ UNCHANGED heap

\* Variant of ExtendTimeout that uses context.WithCancel: no deadline is set.
ExtendTimeoutNoTimer(ctx, timeout) ==
    LET newCtx == CancelNode(Background, "extend")
        vals == getValues(ctx)
        attach == vals # Nil
    IN  /\ ExtendWith(ctx, timeout,
                      IF attach
                      THEN [newCtx EXCEPT !.key = contextKey, !.val = Ptr(vals)]
                      ELSE newCtx,
                      InitialErr(Background, FALSE), attach /\ vals = nalloc + 1)
        /\ UNCHANGED heap

\* Variant of ExtendTimeout that keeps the source's deadline when that one is
\* the earlier of the two.
ExtendTimeoutEarliest(ctx, timeout) ==
    LET cur == Deadline(ctx)
        deadline == IF cur[2] /\ cur[1] < now + timeout THEN cur[1] ELSE now + timeout
        newCtx == TimerNode(Background, deadline, "extend")
        vals == getValues(ctx)
        attach == vals # Nil
    IN  /\ ExtendWith(ctx, timeout,
                      IF attach
                      THEN [newCtx EXCEPT !.key = contextKey, !.val = Ptr(vals)]
                      ELSE newCtx,
                      InitialErr(Background, deadline <= now), attach /\ vals = nalloc + 1)
        /\ UNCHANGED heap

\* ExtendTimeout: context.WithTimeout(context.Background(), timeout), then the
\* source's struct pointer is attached on top unless getValues returned nil.
ExtendTimeout(ctx, timeout) ==
    LET newCtx == TimerNode(Background, now + timeout, "extend")
        vals == getValues(ctx)
        attach == vals # Nil
        fresh == vals = nalloc + 1
        attached == withValues(Background, vals, "extend")
    IN  /\ Len(ctxs) < MaxCtx
        /\ (attach /\ fresh) => nalloc < MaxHolders
        /\ ctxs' = Append(ctxs,
                      [(IF attach
                        THEN [newCtx EXCEPT !.key = attached.key, !.val = attached.val]
                        ELSE newCtx) EXCEPT !.src = ctx, !.dur = timeout, !.at = now])
        /\ errs' = Append(errs, InitialErr(Background, timeout <= 0))
        /\ nalloc' = IF attach /\ fresh THEN nalloc + 1 ELSE nalloc
        /\ last' = Call("ExtendTimeout", ctx, "", timeout)
        /\ UNCHANGED <<heap, now, thr>>

\* ------------------------------------------- the caller and the host runtime
HostVia == {"derive", "raw", "withCancel", "withTimeout"}
HostNodes == {i \in Nodes : ctxs[i].via \in HostVia}

\* The caller still makes calls of the host's context package.
HostRoom == Cardinality(HostNodes) < MaxHost

HostAppend(node, err) ==
    /\ Len(ctxs) < MaxCtx
    /\ ctxs' = Append(ctxs, node)
    /\ errs' = Append(errs, err)
    /\ last' = Call(node.via, node.parent, "", 0)
    /\ UNCHANGED <<heap, nalloc, now, thr>>

\* context.WithValue(ctx, "other-key", v): a derived handle.
Derive(ctx) == HostAppend(ValueNode(ctx, OtherKey, AppValue, "derive"), "nil")

\* context.WithValue(ctx, contextKey{}, v) with v not a usable struct pointer:
\* a wrong-type value, an untyped nil or a nil *contextValues.
WithRawValue(ctx, v) == HostAppend(ValueNode(ctx, contextKey, v, "raw"), "nil")

\* context.WithCancel(ctx).
WithCancel(ctx) == HostAppend(CancelNode(ctx, "withCancel"), InitialErr(ctx, FALSE))

\* context.WithTimeout(ctx, d): a cancelCtx when the parent's deadline is
\* already earlier, a timerCtx otherwise.
WithTimeout(ctx, d) ==
    LET cur == Deadline(ctx)
    IN  IF cur[2] /\ cur[1] < now + d
        THEN HostAppend(CancelNode(ctx, "withTimeout"), InitialErr(ctx, FALSE))
        ELSE HostAppend(TimerNode(ctx, now + d, "withTimeout"), InitialErr(ctx, d <= 0))

\* The CancelFunc of cancelCtx/timerCtx node n is invoked.
Cancel(n) ==
    /\ ctxs[n].cancel # "none"
    /\ errs' = Cancelled({n}, "Canceled")
    /\ UNCHANGED <<ctxs, heap, nalloc, now, last, thr>>

\* The timers that fire when the clock reaches t.
Due(t) == {i \in Nodes : ctxs[i].cancel = "timer" /\ ctxs[i].deadline = t}

\* The clock advances one unit and the host runs every timer that is due.
Tick ==
    /\ now < MaxTime
    /\ now' = now + 1
    /\ errs' = Cancelled(Due(now + 1), "DeadlineExceeded")
    /\ UNCHANGED <<ctxs, heap, nalloc, last, thr>>

\* ------------------------------------------------ goroutines, step by step
\* Two goroutines each make one call of the public API; the steps of a call
\* are the statements of setString / getString: entry and getValues with the
\* nil check (internal.go 7-10, 17-20), the field access through the pointer
\* (11, 21), withValues (12).
Threads == {1, 2}
Idle == [pc |-> "idle", op |-> "", ctx |-> 0, arg |-> "", vals |-> 0, res |-> "", ret |-> 0]

Setters == {"SetDeviceID", "SetTraceID"}
Getters == {"GetDeviceID", "GetTraceID"}
FieldOf(op) == IF op \in {"SetDeviceID", "GetDeviceID"} THEN "deviceID" ELSE "traceID"

\* Variant of StepGetValues in which the call first takes a mutex shared by
\* all goroutines and holds it until it returns.
StepGetValuesLocked(t, op, ctx, arg) ==
    LET vals == IF op \in Setters THEN setTarget(ctx) ELSE getValues(ctx)
        fresh == vals = nalloc + 1
    IN  /\ thr[t].pc = "idle"
        /\ \A u \in Threads \ {t} : thr[u].pc \in {"idle", "done"}
        /\ fresh => nalloc < MaxHolders
        /\ nalloc' = IF fresh THEN nalloc + 1 ELSE nalloc
        /\ thr' = [thr EXCEPT ![t] = [Idle EXCEPT !.op = op, !.ctx = ctx, !.arg = arg,
                                       !.vals = vals,
                                       !.pc = IF vals = Nil THEN "done" ELSE "access"]]
        /\ UNCHANGED <<ctxs, errs, heap, now, last>>

\* Goroutine t enters op(ctx, arg): vals := getValues(ctx) and the nil check
\* that follows it (setString allocates a struct for a nil pointer, getString
\* returns "").
StepGetValues(t, op, ctx, arg) ==
    LET vals == IF op \in Setters THEN setTarget(ctx) ELSE getValues(ctx)
        fresh == vals = nalloc + 1
    IN  /\ thr[t].pc = "idle"
        /\ fresh => nalloc < MaxHolders
        /\ nalloc' = IF fresh THEN nalloc + 1 ELSE nalloc
        /\ thr' = [thr EXCEPT ![t] = [Idle EXCEPT !.op = op, !.ctx = ctx, !.arg = arg,
                                       !.vals = vals,
                                       !.pc = IF vals = Nil THEN "done" ELSE "access"]]
        /\ UNCHANGED <<ctxs, errs, heap, now, last>>

\* Variant of StepAccess whose setter stores a whole new struct value through
\* the pointer: *vals = contextValues{field: value}.
StepAccessWholeStruct(t) ==
    LET f == FieldOf(thr[t].op)
        p == thr[t].vals
    IN  /\ thr[t].pc = "access"
        /\ IF thr[t].op \in Setters
           THEN /\ heap' = [heap EXCEPT ![p] = [contextValues EXCEPT ![f] = thr[t].arg]]
                /\ thr' = [thr EXCEPT ![t].pc = "withValues"]
           ELSE /\ heap' = heap
                /\ thr' = [thr EXCEPT ![t].pc = "done", ![t].res = heap[p][f]]
        /\ UNCHANGED <<ctxs, errs, nalloc, now, last>>

\* setter(vals, value) writes the field; getter(vals) reads it and returns.
StepAccess(t) ==
    LET f == FieldOf(thr[t].op)
        p == thr[t].vals
    IN  /\ thr[t].pc = "access"
        /\ IF thr[t].op \in Setters
           THEN /\ heap' = [heap EXCEPT ![p][f] = thr[t].arg]
                /\ thr' = [thr EXCEPT ![t].pc = "withValues"]
           ELSE /\ heap' = heap
                /\ thr' = [thr EXCEPT ![t].pc = "done", ![t].res = heap[p][f]]
        /\ UNCHANGED <<ctxs, errs, nalloc, now, last>>

\* return withValues(ctx, vals).
StepWithValues(t) ==
    /\ thr[t].pc = "withValues"
    /\ Len(ctxs) < MaxCtx
    /\ ctxs' = Append(ctxs, withValues(thr[t].ctx, thr[t].vals, "set"))
    /\ errs' = Append(errs, "nil")
    /\ thr' = [thr EXCEPT ![t].pc = "done", ![t].ret = Len(ctxs) + 1]
    /\ UNCHANGED <<heap, nalloc, now, last>>

AllIdle == \A t \in Threads : thr[t].pc = "idle"

Init ==
    /\ ctxs = <<>>
    /\ errs = <<>>
    /\ heap = [p \in 1..(MaxHolders + 1) |-> contextValues]
    /\ nalloc = 0
    /\ now = 0
    /\ last = NoOp
    /\ thr = [t \in Threads |-> Idle]

\* Every operation of the package, of its callers and of the host.
Next ==
    \/ \E h \in Handles, s \in Str : SetDeviceID(h, s)
    \/ \E h \in Handles, s \in Str : SetTraceID(h, s)
    \/ \E h \in Handles, d \in Durations : ExtendTimeout(h, d)
    \/ \E h \in Handles : HostRoom /\ Derive(h)
    \/ \E h \in Handles, v \in {WrongType, NilIface, Ptr(Nil)} : HostRoom /\ WithRawValue(h, v)
    \/ \E h \in Handles : HostRoom /\ WithCancel(h)
    \/ \E h \in Handles, d \in Durations : HostRoom /\ WithTimeout(h, d)
    \/ \E n \in Nodes : Cancel(n)
    \/ Tick

Spec == Init /\ [][Next]_vars

\* The operations that read or write values: setters, ExtendTimeout, host
\* derivation and raw attachment under the private key.  No step of it reads
\* the clock or an error state.
\* ExtendTimeout is called with one duration here; SpecTime covers the others.
NextValues ==
    \/ \E h \in Handles, s \in Str : SetDeviceID(h, s)
    \/ \E h \in Handles, s \in {"", "b"} : SetTraceID(h, s)
    \/ \E h \in Handles : ExtendTimeout(h, MaxDur)
    \/ \E h \in Handles : HostRoom /\ Derive(h)
    \/ \E h \in Handles, v \in {WrongType, NilIface, Ptr(Nil)} : HostRoom /\ WithRawValue(h, v)

SpecValues == Init /\ [][NextValues]_vars

\* The operations that create, cancel and expire contexts, with one setter so
\* that source handles with and without a struct both occur.
NextTime ==
    \/ \E h \in Handles : Len(ctxs) < MaxTimedCtx /\ SetDeviceID(h, "a")
    \/ \E h \in Handles, d \in Durations : Len(ctxs) < MaxTimedCtx /\ ExtendTimeout(h, d)
    \/ \E h \in Handles : Len(ctxs) < MaxTimedCtx /\ HostRoom /\ WithCancel(h)
    \/ \E h \in Handles, d \in Durations : Len(ctxs) < MaxTimedCtx /\ HostRoom /\ WithTimeout(h, d)
    \/ \E n \in Nodes : Cancel(n)
    \/ Tick

SpecTime == Init /\ [][NextTime]_vars

\* ExtendTimeout on handles with and without a deadline of their own, as the
\* clock advances.
NextDeadline ==
    \/ \E h \in Handles, d \in Durations : Len(ctxs) < MaxTimedCtx /\ ExtendTimeout(h, d)
    \/ \E h \in Handles, d \in Durations : Len(ctxs) < MaxTimedCtx /\ HostRoom /\ WithTimeout(h, d)
    \/ Tick

SpecDeadline == Init /\ [][NextDeadline]_vars

\* Handles returned by ExtendTimeout, from the call to their cancellation or
\* expiry.
NextLifecycle ==
    \/ \E h \in Handles, d \in Durations : Len(ctxs) < MaxTimedCtx /\ ExtendTimeout(h, d)
    \/ \E n \in Nodes : Cancel(n)
    \/ Tick

SpecLifecycle == Init /\ [][NextLifecycle]_vars

\* A setter called on handles the caller built with the host's context
\* package: values under application keys, cancel functions, deadlines.
NextChild ==
    \/ \E h \in Handles : Len(ctxs) < MaxTimedCtx /\ SetDeviceID(h, "a")
    \/ \E h \in Handles : Len(ctxs) < MaxTimedCtx /\ Derive(h)
    \/ \E h \in Handles : Len(ctxs) < MaxTimedCtx /\ WithCancel(h)
    \/ \E h \in Handles, d \in Durations : Len(ctxs) < MaxTimedCtx /\ WithTimeout(h, d)
    \/ \E n \in Nodes : Cancel(n)
    \/ Tick

SpecChild == Init /\ [][NextChild]_vars

\* The operations that hand a struct on from handle to handle: the setters,
\* ExtendTimeout and host derivation under application keys, in chains of any
\* length the node bound allows.
NextChain ==
    \/ \E h \in Handles, s \in Str : SetDeviceID(h, s)
    \/ \E h \in Handles, s \in {"", "b"} : SetTraceID(h, s)
    \/ \E h \in Handles : ExtendTimeout(h, MaxDur)
    \/ \E h \in Handles : Derive(h)

SpecChain == Init /\ [][NextChain]_vars

\* A main goroutine builds handles with the public API, then the goroutines
\* each make one call, interleaved statement by statement.  The goroutines are
\* interchangeable, so goroutine 1 is taken to be the one that enters first.
NextConc ==
    \/ \E h \in Handles, s \in Str :
          AllIdle /\ Len(ctxs) < MaxCtx - Cardinality(Threads) /\ SetDeviceID(h, s)
    \/ \E h \in Handles :
          AllIdle /\ Len(ctxs) < MaxCtx - Cardinality(Threads) /\ ExtendTimeout(h, MaxDur)
    \/ \E t \in Threads, op \in Setters, h \in Handles, s \in Str :
          (\A u \in Threads : u < t => thr[u].pc # "idle") /\ StepGetValues(t, op, h, s)
    \/ \E t \in Threads, op \in Getters, h \in Handles :
          (\A u \in Threads : u < t => thr[u].pc # "idle") /\ StepGetValues(t, op, h, "")
    \/ \E t \in Threads : StepAccess(t)
    \/ \E t \in Threads : StepWithValues(t)

SpecConc == Init /\ [][NextConc]_vars

\* ================================================================= claims
\* h resolves to a holder: a non-nil *contextValues is found under contextKey{}.
HasHolder(h) == Value(h, contextKey).t = "ptr" /\ Value(h, contextKey).p # Nil
Holder(h) == Value(h, contextKey).p

\* The getter that matches the setter of the last call.
IsSet == last.op \in {"SetDeviceID", "SetTraceID"}
LastGetter(h) == IF last.op = "SetDeviceID" THEN GetDeviceID(h) ELSE GetTraceID(h)
LastPre == IF last.op = "SetDeviceID" THEN last.preDev ELSE last.preTrace

\* x is root or is derived from root by setters and by host derivations that
\* do not re-bind the private key.
RECURSIVE Derived(_, _)
Derived(root, x) ==
    IF x = root THEN TRUE
    ELSE IF x = Background THEN FALSE
    ELSE ctxs[x].via \in {"set", "derive", "withCancel", "withTimeout"}
         /\ Derived(root, ctxs[x].parent)

ExtNodes == {e \in Nodes : ctxs[e].via = "extend"}

\* C1: set/get round trip.  Right after SetDeviceID(h, s) the getter on the
\* returned handle yields s, and likewise for SetTraceID, whatever h carried
\* under the private key (nothing, a struct, a wrong-type value, a nil) and
\* for every s, the empty string included.
C1_RoundTrip ==
    /\ last.op = "SetDeviceID" => GetDeviceID(last.ret) = last.arg
    /\ last.op = "SetTraceID" => GetTraceID(last.ret) = last.arg

\* C1 witness: "" was set over a previously set non-empty device ID and the
\* getter on the returned handle now yields "".
C1_Witness ==
    /\ last.op = "SetDeviceID"
    /\ last.arg = ""
    /\ last.preDev # ""
    /\ GetDeviceID(last.ret) = ""

\* C2: ExtendTimeout shares the holder.  For every handle e returned by
\* ExtendTimeout(h, _) where h resolved to a holder: after a later Set through
\* e or a handle derived from e, the matching getter on h yields the new
\* value; after a later Set through h or a handle derived from h, the
\* matching getter on e yields the new value.
C2_SharedAfterExtend ==
    \A e \in ExtNodes :
        LET h == ctxs[e].src
        IN  (HasHolder(h) /\ IsSet /\ last.ret > e) =>
                /\ Derived(e, last.ctx) => LastGetter(h) = last.arg
                /\ Derived(h, last.ctx) => LastGetter(e) = last.arg

\* C2 witness: a Set through a handle derived from the extended handle changed
\* the value seen through the source handle.
C2_Witness ==
    \E e \in ExtNodes :
        /\ HasHolder(ctxs[e].src)
        /\ IsSet /\ last.ret > e
        /\ last.ctx # e /\ Derived(e, last.ctx)
        /\ LastPre # last.arg
        /\ LastGetter(ctxs[e].src) = last.arg

\* C3: ExtendTimeout on a source that carries no holder attaches nothing: a
\* raw lookup of the private key on the returned handle finds nothing, and
\* both getters on it return "".
C3_ExtendSkipsAttach ==
    (last.op = "ExtendTimeout" /\ ~HasHolder(last.ctx)) =>
        /\ Value(last.ret, contextKey) = NilIface
        /\ GetDeviceID(last.ret) = ""
        /\ GetTraceID(last.ret) = ""

\* C4: setting is not copy-on-write.  When the input handle of a Set already
\* resolves to a holder H, right after the call the matching getter yields the
\* new value on the input handle and on every handle that resolves to H.
C4_InPlace ==
    (IsSet /\ HasHolder(last.ctx)) =>
        \A x \in Handles :
            (HasHolder(x) /\ Holder(x) = Holder(last.ctx)) => LastGetter(x) = last.arg

\* C4 witness: a Set through a handle with a holder changed the value, and a
\* third handle, neither the input nor the result, resolves to that holder.
C4_Witness ==
    /\ IsSet /\ HasHolder(last.ctx)
    /\ LastPre # last.arg
    /\ LastGetter(last.ctx) = last.arg
    /\ \E x \in Nodes \ {last.ctx, last.ret} :
           HasHolder(x) /\ Holder(x) = Holder(last.ctx)

\* C6: ExtendTimeout preserves values.  Right after ExtendTimeout(h, dur) both
\* getters on the returned handle yield what they yield on h, which is what
\* they yielded on h before the call.
C6_ExtendPreserves ==
    last.op = "ExtendTimeout" =>
        /\ GetDeviceID(last.ret) = GetDeviceID(last.ctx)
        /\ GetTraceID(last.ret) = GetTraceID(last.ctx)
        /\ GetDeviceID(last.ret) = last.preDev
        /\ GetTraceID(last.ret) = last.preTrace

\* C6 witness: ExtendTimeout on a handle with both IDs set and different.
C6_Witness ==
    /\ last.op = "ExtendTimeout"
    /\ last.preDev # "" /\ last.preTrace # "" /\ last.preDev # last.preTrace
    /\ GetDeviceID(last.ret) = last.preDev

\* C7: field independence.  Right after SetDeviceID(h, s) the trace ID on h
\* and on the returned handle is the trace ID h had before the call, and
\* symmetrically for SetTraceID and the device ID.
C7_FieldIndependence ==
    /\ last.op = "SetDeviceID" =>
          GetTraceID(last.ctx) = last.preTrace /\ GetTraceID(last.ret) = last.preTrace
    /\ last.op = "SetTraceID" =>
          GetDeviceID(last.ctx) = last.preDev /\ GetDeviceID(last.ret) = last.preDev

\* C7 witness: SetDeviceID with a value other than the non-empty trace ID the
\* handle already had.
C7_Witness ==
    /\ last.op = "SetDeviceID"
    /\ last.preTrace # "" /\ last.arg # last.preTrace /\ last.arg # last.preDev
    /\ GetTraceID(last.ret) = last.preTrace

\* C8: getters never fail.  On every handle whose private key resolves to
\* nothing, to a wrong-type value or to a nil, both getters return "", which is
\* what they return on a handle with no holder at all.
C8_NeverFail ==
    \A h \in Handles :
        ~HasHolder(h) =>
            /\ GetDeviceID(h) = "" /\ GetTraceID(h) = ""
            /\ GetDeviceID(h) = GetDeviceID(Background)
            /\ GetTraceID(h) = GetTraceID(Background)

\* C8 witness: a wrong-type value and a nil pointer each shadow nothing or a
\* real holder; here a wrong-type value hides a holder with a device ID.
C8_Witness ==
    \E h \in Nodes :
        /\ Value(h, contextKey) = WrongType
        /\ HasHolder(ctxs[h].parent)
        /\ GetDeviceID(ctxs[h].parent) # ""
        /\ GetDeviceID(h) = ""

\* In this step the CancelFunc of the live node n is invoked, or n's timer
\* fires.
Event(n) == (Cancel(n) /\ errs' # errs) \/ (now' # now /\ n \in Due(now'))

\* C5: cancellation independence of ExtendTimeout.  For e returned by
\* ExtendTimeout(h, _): a step in which only e is cancelled or expires leaves
\* the error state of h and of every other handle extended from h unchanged;
\* a step in which e is neither cancelled nor expires (h or an ancestor of h
\* is cancelled, h's own deadline expires, a sibling is cancelled) leaves the
\* error state of e unchanged; and the error state e starts with does not
\* depend on h having been cancelled before the call.
C5_CancelIndependent ==
    [][ /\ \A e \in ExtNodes :
              LET h == ctxs[e].src
              IN  /\ (\A a \in Nodes : Event(a) => a = e) =>
                        /\ Err(h)' = Err(h)
                        /\ \A s \in ExtNodes \ {e} : ctxs[s].src = h => Err(s)' = Err(s)
                  /\ ~Event(e) => Err(e)' = Err(e)
        /\ (last' # last /\ last'.op = "ExtendTimeout") =>
              Err(last.ret)' = IF last'.dur <= 0 THEN "DeadlineExceeded" ELSE "nil"
      ]_vars

\* C5 witness: the source handle was cancelled and so was one handle extended
\* from it, while a second handle extended from it still has no error.
C5_Witness ==
    \E e \in ExtNodes, s \in ExtNodes :
        LET h == ctxs[e].src
        IN  /\ e # s /\ ctxs[s].src = h
            /\ h # Background /\ Err(h) = "Canceled"
            /\ Err(s) = "Canceled"
            /\ Err(e) = "nil"

\* C9: error-state lifecycle of an extended handle.  For e returned by
\* ExtendTimeout(h, dur) with dur > 0 at time `at`: it has a cancel function
\* and no error when it is returned; in every later step an error it already
\* has stays, invoking its cancel function before at + dur makes the error
\* Canceled, the clock reaching at + dur makes it DeadlineExceeded, and
\* otherwise it keeps having no error.
C9_ErrLifecycle ==
    [][ /\ \A e \in ExtNodes :
              ctxs[e].dur > 0 =>
                  /\ ctxs[e].cancel # "none"
                  /\ Err(e)' = IF Err(e) # "nil" THEN Err(e)
                               ELSE IF Cancel(e) /\ now < ctxs[e].at + ctxs[e].dur THEN "Canceled"
                               ELSE IF ctxs[e].at + ctxs[e].dur <= now' THEN "DeadlineExceeded"
                               ELSE "nil"
        /\ (last' # last /\ last'.op = "ExtendTimeout" /\ last'.dur > 0) =>
              Err(last.ret)' = "nil"
      ]_vars

\* C9 witness: three extended handles with a positive timeout, one cancelled
\* before its deadline, one past its deadline, one still without error.
C9_Witness ==
    \E a \in ExtNodes, b \in ExtNodes, c \in ExtNodes :
        /\ ctxs[a].dur > 0 /\ ctxs[b].dur > 0 /\ ctxs[c].dur > 0
        /\ Err(a) = "Canceled" /\ now < ctxs[a].at + ctxs[a].dur
        /\ Err(b) = "DeadlineExceeded"
        /\ Err(c) = "nil"

\* Goroutines t and u are both about to access the same field of the same
\* struct, and at least one of the two accesses is a write.
Conflict(t, u) ==
    /\ t # u
    /\ thr[t].pc = "access" /\ thr[u].pc = "access"
    /\ thr[t].vals = thr[u].vals
    /\ FieldOf(thr[t].op) = FieldOf(thr[u].op)
    /\ thr[t].op \in Setters \/ thr[u].op \in Setters

\* C10: unsynchronised concurrent mutation is a data race.  No lock or other
\* guard orders the statements of concurrent calls: a goroutine can enter a
\* setter on any handle wherever the other goroutine is in its own call (only
\* the model's allocation bound can hold back an allocating getValues), a
\* goroutine at its field access can always take that step, and so when two
\* goroutines conflict either access can come first.
C10_NoGuard ==
    /\ \A t \in Threads, h \in Handles :
          (thr[t].pc = "idle" /\ nalloc < MaxHolders /\ \A u \in Threads : u < t => thr[u].pc # "idle")
              => ENABLED StepGetValues(t, "SetDeviceID", h, "a")
    /\ \A t \in Threads : thr[t].pc = "access" => ENABLED StepAccess(t)
    /\ \A t \in Threads, u \in Threads :
          Conflict(t, u) => ENABLED StepAccess(t) /\ ENABLED StepAccess(u)

\* C10 witness: the race.  Two goroutines, called through two different
\* handles that resolve to one struct, are both about to access the same field
\* of it, one of them writing.
C10_Witness ==
    \E t \in Threads, u \in Threads :
        /\ Conflict(t, u)
        /\ thr[t].ctx # thr[u].ctx
        /\ thr[t].op \in Setters /\ thr[u].op \in Getters
\* x is h or is reached from h by host derivations under application keys.
RECURSIVE DerivedByHost(_, _)
DerivedByHost(h, x) ==
    IF x = h THEN TRUE
    ELSE IF x = Background THEN FALSE
    ELSE ctxs[x].via = "derive" /\ DerivedByHost(h, ctxs[x].parent)

\* C11: derived handles inherit values.  On every handle x reached from a
\* handle h by a chain of host derivations under application keys, both
\* getters return what they return on h, in every state (so after any later
\* Set through h or through x), and right after a derivation they return on
\* the new handle what they returned on its parent before it.
C11_DerivedInherit ==
    /\ \A h \in Handles, x \in Nodes :
          DerivedByHost(h, x) =>
              GetDeviceID(x) = GetDeviceID(h) /\ GetTraceID(x) = GetTraceID(h)
    /\ last.op = "derive" =>
          GetDeviceID(last.ret) = last.preDev /\ GetTraceID(last.ret) = last.preTrace

\* C11 witness: a chain of two derivations from a handle with a holder, and a
\* later Set through the end of the chain that changed the value seen at both
\* ends.
C11_Witness ==
    \E h \in Nodes, x \in Nodes :
        /\ HasHolder(h) /\ DerivedByHost(h, x)
        /\ x # h /\ ctxs[x].parent # h
        /\ IsSet /\ last.ctx = x /\ LastPre # last.arg /\ last.arg # ""
        /\ LastGetter(x) = last.arg /\ LastGetter(h) = last.arg

\* C12 as claimed: every handle e returned by ExtendTimeout(h, dur) has a
\* deadline, the deadline is the time of the call plus dur whatever deadline h
\* has, and it is strictly later than the time of the call, for every dur.
C12_DeadlineFuture ==
    \A e \in ExtNodes :
        /\ Deadline(e) = <<ctxs[e].at + ctxs[e].dur, TRUE>>
        /\ Deadline(e)[1] > ctxs[e].at

\* C12 as amended: every handle e returned by ExtendTimeout(h, dur) has a
\* deadline, the deadline is the time of the call plus dur whatever deadline h
\* has, and it is strictly later than the time of the call when dur > 0 (with
\* dur = 0 it is the time of the call itself).
C12_DeadlineAtCallPlusDur ==
    \A e \in ExtNodes :
        /\ Deadline(e) = <<ctxs[e].at + ctxs[e].dur, TRUE>>
        /\ ctxs[e].dur > 0 => Deadline(e)[1] > ctxs[e].at
        /\ ctxs[e].dur = 0 => Deadline(e)[1] = ctxs[e].at

\* C12 witness: one handle extended with a positive timeout from a source
\* whose deadline is earlier than the new one, and one from a source whose
\* deadline is later than the new one.
C12_Witness ==
    \E e \in ExtNodes, f \in ExtNodes :
        /\ ctxs[e].dur > 0 /\ ctxs[f].dur > 0
        /\ Deadline(ctxs[e].src)[2] /\ Deadline(ctxs[e].src)[1] < Deadline(e)[1]
        /\ Deadline(ctxs[f].src)[2] /\ Deadline(ctxs[f].src)[1] > Deadline(f)[1]

\* C13: cancellation never touches the values.  A step in which a handle is
\* cancelled or a deadline expires leaves every struct as it was, so both
\* getters return on every handle what they returned before the step; and a
\* SetDeviceID through a handle returned by ExtendTimeout that is already
\* cancelled or expired still writes: the getter yields the new value on the
\* returned handle, on the cancelled handle and on every handle that shares
\* its struct.
C13_CancelKeepsValues ==
    [][ /\ (\E n \in Nodes : Event(n)) =>
              /\ heap' = heap
              /\ \A x \in Handles :
                    GetDeviceID(x)' = GetDeviceID(x) /\ GetTraceID(x)' = GetTraceID(x)
        /\ \A e \in ExtNodes :
              (Err(e) # "nil" /\ last' # last /\ last'.op = "SetDeviceID" /\ last'.ctx = e) =>
                  /\ GetDeviceID(last.ret)' = last'.arg
                  /\ \A x \in Handles :
                        (HasHolder(x) /\ HasHolder(e) /\ Holder(x) = Holder(e)) =>
                            GetDeviceID(x)' = last'.arg
      ]_vars

\* C13 witness: a handle returned by ExtendTimeout with a positive timeout
\* expired, a SetDeviceID through it was made after that and changed the
\* device ID, and a second handle that shares its struct and has no error
\* shows the new value.
C13_Witness ==
    \E e \in ExtNodes, x \in Nodes :
        /\ ctxs[e].dur > 0 /\ Err(e) = "DeadlineExceeded"
        /\ last.op = "SetDeviceID" /\ last.ctx = e
        /\ ctxs[e].at + ctxs[e].dur <= last.at
        /\ last.preDev # last.arg
        /\ x # e /\ x # last.ret /\ Err(x) = "nil"
        /\ HasHolder(x) /\ HasHolder(e) /\ Holder(x) = Holder(e)
        /\ GetDeviceID(x) = last.arg /\ GetDeviceID(e) = last.arg

\* The handle the last call returned, when that call was a setter, is another
\* handle than its input, and resolves an application key, reports a deadline
\* and reports an error exactly as its input does.
SetterChild ==
    IsSet =>
        /\ last.ret # last.ctx
        /\ Value(last.ret, OtherKey) = Value(last.ctx, OtherKey)
        /\ Deadline(last.ret) = Deadline(last.ctx)
        /\ Err(last.ret) = Err(last.ctx)

\* C14: a setter returns a new child handle and leaves the input handle's
\* chain untouched.  The handle a setter returns for input h did not exist
\* before the call and is not h; right after the call and after every later
\* cancellation and clock step it resolves an application key as h does, has
\* h's deadline (or none, as h) and h's error state, so it is cancelled
\* whenever h is; and the call leaves what h resolves the private key to as
\* it was.
C14_SetterChild ==
    [][ /\ SetterChild'
        /\ (last' # last /\ IsSet') =>
              /\ last'.ret \notin Handles
              /\ \A h \in Handles :
                    h = last'.ctx => Value(h, contextKey)' = Value(h, contextKey)
      ]_vars

\* C14 witness: the input handle carries an application value, a deadline
\* and no struct; it was cancelled, and the handle the setter returned shows
\* the same application value, deadline and error, and a struct.
C14_Witness ==
    \E n \in Nodes :
        LET h == last.ctx
        IN  /\ IsSet /\ n = last.ret
            /\ Value(h, OtherKey) = AppValue /\ Value(n, OtherKey) = AppValue
            /\ Deadline(h)[2] /\ Deadline(n) = Deadline(h)
            /\ Err(h) = "Canceled" /\ Err(n) = "Canceled"
            /\ Value(h, contextKey) = NilIface /\ HasHolder(n)

\* C15: getValues never returns nil.  On every handle, whatever its chain
\* stores under the private key (nothing, a wrong-type value, an untyped nil, a
\* struct pointer or the nil pointer withValues(h, nil) stores), getValues
\* returns a non-nil pointer.
C15_GetValuesNonNil ==
    \A h \in Handles : getValues(h) # Nil

\* n and m are two handles returned by two setter calls on one input handle
\* that resolves to no holder.
LazySiblings(n, m) ==
    /\ n # m
    /\ ctxs[n].via = "set" /\ ctxs[m].via = "set"
    /\ ctxs[n].parent = ctxs[m].parent
    /\ ~HasHolder(ctxs[n].parent)

\* C16: lazy creation does not alias the input.  After a setter call on a
\* handle h that resolves to no holder (nothing, a wrong-type value or a nil
\* under the private key) both getters on h still return ""; two handles
\* returned by two setter calls on such an h carry two different structs; and
\* a later setter call through one of them leaves what both getters return on
\* the other unchanged.
C16_LazyNoAlias ==
    [][ /\ (IsSet /\ ~HasHolder(last.ctx) =>
                GetDeviceID(last.ctx) = "" /\ GetTraceID(last.ctx) = "")'
        /\ (\A n \in Nodes, m \in Nodes :
                LazySiblings(n, m) =>
                    HasHolder(n) /\ HasHolder(m) /\ Holder(n) # Holder(m))'
        /\ \A n \in Nodes, m \in Nodes :
              (LazySiblings(n, m) /\ last' # last /\ IsSet' /\ last'.ctx = n) =>
                  GetDeviceID(m)' = GetDeviceID(m) /\ GetTraceID(m)' = GetTraceID(m)
      ]_vars

\* C16 witness: two setter calls on a handle that stores a nil pointer under
\* the private key returned two handles, and a later setter call through one
\* of them changed the value there while the other keeps its own value and
\* the input handle still yields "".
C16_Witness ==
    \E n \in Nodes, m \in Nodes :
        /\ LazySiblings(n, m)
        /\ Value(ctxs[n].parent, contextKey) = Ptr(Nil)
        /\ IsSet /\ last.ctx = n /\ LastPre # last.arg
        /\ LastGetter(n) = last.arg
        /\ LastGetter(m) # last.arg /\ LastGetter(m) # ""
        /\ LastGetter(ctxs[n].parent) = ""

\* x is root or was produced from root by a sequence of setters, ExtendTimeout
\* calls and host derivations under application keys.
RECURSIVE Produced(_, _)
Produced(root, x) ==
    IF x = root THEN TRUE
    ELSE IF x = Background THEN FALSE
    ELSE IF ctxs[x].via = "extend" THEN Produced(root, ctxs[x].src)
    ELSE ctxs[x].via \in {"set", "derive"} /\ Produced(root, ctxs[x].parent)

\* Every handle produced from a handle with a holder resolves to that holder
\* and yields that handle's values from both getters.
SameHolder ==
    \A root \in Handles, x \in Handles :
        (HasHolder(root) /\ Produced(root, x)) =>
            /\ HasHolder(x) /\ Holder(x) = Holder(root)
            /\ GetDeviceID(x) = GetDeviceID(root)
            /\ GetTraceID(x) = GetTraceID(root)

\* C17: holder identity is invariant under the public operations.  After
\* every step, every handle produced from a handle that resolves to a holder
\* H by setters, ExtendTimeout and host derivations under application keys
\* resolves to H and yields the same values from both getters; and a public
\* operation called on a handle that has a holder allocates no struct.
C17_HolderIdentity ==
    [][ /\ SameHolder'
        /\ \A h \in Handles :
              (last' # last /\ last'.ctx = h /\ HasHolder(h)) => nalloc' = nalloc
      ]_vars

\* C17 witness: from a handle with a holder, a host derivation, then
\* ExtendTimeout, then a setter that changed a value: all four handles
\* resolve to one struct and show the new value.
C17_Witness ==
    \E root \in Nodes, d \in Nodes, e \in Nodes :
        /\ ctxs[d].via = "derive" /\ ctxs[d].parent = root
        /\ ctxs[e].via = "extend" /\ ctxs[e].src = d
        /\ IsSet /\ last.ctx = e /\ LastPre # last.arg
        /\ HasHolder(root)
        /\ \A x \in {d, e, last.ret} : Holder(x) = Holder(root)
        /\ LastGetter(root) = last.arg

\* Goroutine t ran SetDeviceID and goroutine u ran SetTraceID on handles that
\* resolve to one holder, and both calls have returned.
BothSet(t, u) ==
    /\ thr[t].pc = "done" /\ thr[t].op = "SetDeviceID"
    /\ thr[u].pc = "done" /\ thr[u].op = "SetTraceID"
    /\ HasHolder(thr[t].ctx) /\ HasHolder(thr[u].ctx)
    /\ Holder(thr[t].ctx) = Holder(thr[u].ctx)

\* C18: no lost update across fields.  When SetDeviceID(hA, a) and
\* SetTraceID(hB, b) ran in two goroutines on handles that resolve to one
\* holder, then, however their statements were interleaved, once both have
\* returned the device ID is a and the trace ID is b through hA, through hB
\* and through both returned handles.
C18_NoLostUpdate ==
    \A t \in Threads, u \in Threads :
        BothSet(t, u) =>
            \A x \in {thr[t].ctx, thr[u].ctx, thr[t].ret, thr[u].ret} :
                GetDeviceID(x) = thr[t].arg /\ GetTraceID(x) = thr[u].arg

\* C18 witness: the two calls overlapped (goroutine 1 entered first and
\* returned last), they went through two different handles, and both wrote a
\* non-empty value.
C18_Witness ==
    \E t \in Threads, u \in Threads :
        /\ BothSet(t, u)
        /\ thr[t].ctx # thr[u].ctx
        /\ thr[1].ret > thr[2].ret
        /\ thr[t].arg # "" /\ thr[u].arg # "" /\ thr[t].arg # thr[u].arg
        /\ GetDeviceID(thr[u].ctx) = thr[t].arg /\ GetTraceID(thr[t].ctx) = thr[u].arg

====
